---- MODULE Spec2Model ----
(***************************************************************************)
(* State-machine model of the SE Shop REST backend: the Express app of     *)
(* index.js and the cart, user and product routers.  Every step between    *)
(* two awaits of a handler is one atomic action; a handler with a single   *)
(* database call is one action.                                            *)
(***************************************************************************)
EXTENDS Integers, FiniteSets, Sequences, TLC

VARIABLES products, nextProductId, carts, nextCartId, users, nextUserId, reqs, resp

vars == <<products, nextProductId, carts, nextCartId, users, nextUserId, reqs, resp>>

(***************************************************************************)
(* Bounds of the model.                                                    *)
(***************************************************************************)
MaxQuantity == 3

Reqs == {"r1", "r2"}
SerialReqs == {"r1"}
ProductIds == {1, 2}
Emails == {"a@x", "b@x"}

CartIds == {1, 2}

(***************************************************************************)
(* Cart documents and request payloads (swagger schema Cart).              *)
(***************************************************************************)
CartDoc(productId, name, email, quantity) ==
    [productId |-> productId, name |-> name, email |-> email, image |-> "img",
     price |-> 2000, quantity |-> quantity]

\* The request bodies the clients POST.
CartPayloads ==
    {CartDoc(1, "n1", "a@x", 1), CartDoc(1, "n2", "a@x", 2),
     CartDoc(1, "n1", "b@x", 1)}

Null == [null |-> TRUE]

\* A slip: the new document starts at quantity 1 whatever the payload says.
NewCartModelUnit(cart, id) ==
    [id |-> id, productId |-> cart.productId, name |-> cart.name,
     email |-> cart.email, image |-> cart.image, price |-> cart.price,
     quantity |-> 1]

\* new CartModel(cart): the payload's fields under a generated id.
NewCartModel(cart, id) ==
    [id |-> id, productId |-> cart.productId, name |-> cart.name,
     email |-> cart.email, image |-> cart.image, price |-> cart.price,
     quantity |-> cart.quantity]

\* CartModel.findOne({productId, email}): the first matching document, or null.
FindOneCart(productId, email) ==
    LET hits == {c \in carts : c.productId = productId /\ c.email = email}
    IN  IF hits = {} THEN Null
        ELSE CHOOSE c \in hits : \A d \in hits : c.id <= d.id

\* A slip: the lookup ignores the id.
FindCartByIdAny(id) ==
    IF carts = {} THEN Null ELSE CHOOSE c \in carts : TRUE

\* CartModel.findById(id).
FindCartById(id) ==
    LET hits == {c \in carts : c.id = id}
    IN  IF hits = {} THEN Null ELSE CHOOSE c \in hits : TRUE

(***************************************************************************)
(* Responses.  A response is what the first send of a handler delivered;   *)
(* sends counts the send attempts of the invocation.                       *)
(***************************************************************************)
NoResp == [op |-> "none"]

Message(m) == [kind |-> "message", message |-> m]

Send(status, body) == [status |-> status, body |-> body]

\* The response of a handler invocation that attempted the given sends in
\* order: the first one is delivered; a later res.json() throws because the
\* headers are already sent.
Respond(op, req, attempts) ==
    [op |-> op, req |-> req, status |-> attempts[1].status,
     body |-> attempts[1].body, sends |-> Len(attempts)]

\* A handler path with a single send.
Response(op, req, status, body) == Respond(op, req, <<Send(status, body)>>)

\* catch (error) { res.status(500).json({ message: error.message }) }
ServerError(op, req) == Respond(op, req, <<Send(500, Message("error"))>>)

IdleReq == [pc |-> "idle"]

(***************************************************************************)
(* Cart router.                                                            *)
(***************************************************************************)
\* GET /carts
GetCarts ==
    /\ \E ok \in BOOLEAN :
         resp' = IF ok
                 THEN Response("GET /carts", Null, 200,
                               [kind |-> "list", docs |-> carts])
                 ELSE ServerError("GET /carts", Null)
    /\ UNCHANGED <<products, nextProductId, carts, nextCartId, users, nextUserId, reqs>>

\* GET /carts/:email -- find() resolves to an array, which is never falsy.
GetCartsByEmail ==
    /\ \E email \in Emails, ok \in BOOLEAN :
         resp' = IF ok
                 THEN Response("GET /carts/:email", [email |-> email], 200,
                               [kind |-> "list", docs |-> {c \in carts : c.email = email}])
                 ELSE ServerError("GET /carts/:email", [email |-> email])
    /\ UNCHANGED <<products, nextProductId, carts, nextCartId, users, nextUserId, reqs>>

\* POST /carts, up to the first await: findOne({productId, email}).
PostCartFind(r, payloads) ==
    /\ reqs[r].pc = "idle"
    /\ \E cart \in payloads, ok \in BOOLEAN :
         IF ok
         THEN /\ reqs' = [reqs EXCEPT ![r] =
                    [pc |-> "found", op |-> "POST /carts", cart |-> cart,
                     existingCart |-> FindOneCart(cart.productId, cart.email)]]
              /\ UNCHANGED resp
         ELSE /\ resp' = ServerError("POST /carts", Null)
              /\ UNCHANGED reqs
    /\ UNCHANGED <<products, nextProductId, carts, nextCartId, users, nextUserId>>

\* A slip: the stored quantity is overwritten with the incoming one.
MergedQuantityOverwrite(existingCart, cart) == cart.quantity

\* existingCart.quantity += cart.quantity
MergedQuantity(existingCart, cart) == existingCart.quantity + cart.quantity

\* A variant: the save adds its increment to the quantity stored at save time.
SaveExistingAtomic(existingCart, quantity) ==
    {IF c.id = existingCart.id
     THEN [c EXCEPT !.quantity = c.quantity + (quantity - existingCart.quantity)]
     ELSE c : c \in carts}

\* existingCart.save(): writes the modified path, quantity, of the document
\* with existingCart's id.
SaveExisting(existingCart, quantity) ==
    {IF c.id = existingCart.id THEN [c EXCEPT !.quantity = quantity] ELSE c : c \in carts}

\* A variant: the body is the saved document.
MergeResponseBodySaved(cart, existingCart, quantity) ==
    [kind |-> "doc", doc |-> [existingCart EXCEPT !.quantity = quantity]]

\* res.status(200).json(cart): the body is the request's payload.
MergeResponseBody(cart, existingCart, quantity) == [kind |-> "payload", doc |-> cart]

\* POST /carts, from the findOne to the response, when an item was found.
\* save() of a document that is no longer stored rejects (DocumentNotFoundError).
PostCartMerge(r) ==
    /\ reqs[r].pc = "found"
    /\ reqs[r].op = "POST /carts"
    /\ reqs[r].existingCart # Null
    /\ LET cart == reqs[r].cart
           existingCart == reqs[r].existingCart
           quantity == MergedQuantity(existingCart, cart)
       IN  /\ quantity <= MaxQuantity
           /\ \E ok \in BOOLEAN :
                IF ok /\ FindCartById(existingCart.id) # Null
                THEN /\ carts' = SaveExisting(existingCart, quantity)
                     /\ resp' = Response("POST /carts", Null, 200,
                                         MergeResponseBody(cart, existingCart, quantity))
                ELSE /\ carts' = carts
                     /\ resp' = ServerError("POST /carts", Null)
    /\ reqs' = [reqs EXCEPT ![r] = IdleReq]
    /\ UNCHANGED <<products, nextProductId, nextCartId, users, nextUserId>>

\* POST /carts, from the findOne to the response, when no item was found.
PostCartInsert(r) ==
    /\ reqs[r].pc = "found"
    /\ reqs[r].op = "POST /carts"
    /\ reqs[r].existingCart = Null
    /\ nextCartId \in CartIds
    /\ LET cart == reqs[r].cart
           newCart == NewCartModel(cart, nextCartId)
       IN  \E ok \in BOOLEAN :
             IF ok
             THEN /\ carts' = carts \cup {newCart}
                  /\ resp' = Response("POST /carts", Null, 201,
                                      [kind |-> "doc", doc |-> newCart])
             ELSE /\ carts' = carts
                  /\ resp' = ServerError("POST /carts", Null)
    /\ nextCartId' = nextCartId + 1
    /\ reqs' = [reqs EXCEPT ![r] = IdleReq]
    /\ UNCHANGED <<products, nextProductId, users, nextUserId>>

\* A slip: the filter is dropped and every document is deleted.
DeleteManyCartsAll(email) == carts

\* CartModel.deleteMany({ email }): the documents it deletes.
DeleteManyCarts(email) == {c \in carts : c.email = email}

\* DELETE /carts/clear/:email
ClearCart ==
    /\ \E email \in Emails, ok \in BOOLEAN :
         LET req == [email |-> email]
             deleted == DeleteManyCarts(email)
         IN  IF ok
             THEN /\ carts' = carts \ deleted
                  /\ resp' = IF Cardinality(deleted) > 0
                             THEN Response("DELETE /carts/clear/:email", req, 200,
                                           [kind |-> "result",
                                            deletedCount |-> Cardinality(deleted)])
                             ELSE Response("DELETE /carts/clear/:email", req, 404,
                                           Message("Empty cart"))
             ELSE /\ carts' = carts
                  /\ resp' = ServerError("DELETE /carts/clear/:email", req)
    /\ UNCHANGED <<products, nextProductId, nextCartId, users, nextUserId, reqs>>

\* The request bodies the clients PUT: any subset of the fields.
CartBodies ==
    {[quantity |-> 1], [name |-> "n2"], [email |-> "b@x"], [productId |-> 2]}

\* findByIdAndUpdate(id, body, { new: true }): the body's fields are set on the
\* stored document, the others keep their values.
UpdateDoc(doc, body) ==
    [f \in DOMAIN doc |-> IF f \in DOMAIN body THEN body[f] ELSE doc[f]]

\* PUT /carts/:id
PutCart(bodies) ==
    /\ \E id \in CartIds, body \in bodies, ok \in BOOLEAN :
         LET req == [id |-> id]
             found == FindCartById(id)
             cart == UpdateDoc(found, body)
         IN  IF ~ok
             THEN /\ carts' = carts
                  /\ resp' = ServerError("PUT /carts/:id", req)
             ELSE IF found = Null
             THEN /\ carts' = carts
                  /\ resp' = Response("PUT /carts/:id", req, 404,
                                      Message("Cart not found"))
             ELSE /\ carts' = (carts \ {found}) \cup {cart}
                  /\ resp' = Response("PUT /carts/:id", req, 200,
                                      [kind |-> "doc", doc |-> cart])
    /\ UNCHANGED <<products, nextProductId, nextCartId, users, nextUserId, reqs>>

\* DELETE /carts/:id
DeleteCart ==
    /\ \E id \in CartIds, ok \in BOOLEAN :
         LET req == [id |-> id]
             cart == FindCartById(id)
         IN  IF ~ok
             THEN /\ carts' = carts
                  /\ resp' = ServerError("DELETE /carts/:id", req)
             ELSE IF cart = Null
             THEN /\ carts' = carts
                  /\ resp' = Response("DELETE /carts/:id", req, 404,
                                      Message("Cart not found"))
             ELSE /\ carts' = carts \ {cart}
                  /\ resp' = Response("DELETE /carts/:id", req, 200,
                                      [kind |-> "doc", doc |-> cart])
    /\ UNCHANGED <<products, nextProductId, nextCartId, users, nextUserId, reqs>>

(***************************************************************************)
(* User router.                                                            *)
(***************************************************************************)
UserIds == {1, 2}

Placeholder == "https://daisyui.com/images/stock/photo-1534528741775-53994a69daeb.jpg"

\* The request bodies the clients POST to /users.
UserPayloads ==
    {[name |-> "u", email |-> "a@x"],
     [name |-> "u", email |-> "b@x", photoURL |-> "photo", role |-> "admin"],
     [name |-> "u", email |-> "b@x", photoURL |-> "", role |-> "admin"]}

\* The request bodies the clients PUT to /users/:id.
UserBodies == {[role |-> "admin"], [role |-> "user"], [email |-> "b@x"]}

\* The bearer tokens the clients present: whether the identity provider
\* accepts the token, and the caller it resolves to.
Tokens == [valid : BOOLEAN, email : Emails]

\* A lookup that never finds the user.
FindOneUserMiss(email) == Null

\* UserModel.findOne({ email }): the first matching document, or null.
FindOneUser(email) ==
    LET hits == {u \in users : u.email = email}
    IN  IF hits = {} THEN Null
        ELSE CHOOSE u \in hits : \A v \in hits : u.id <= v.id

\* UserModel.findById(id).
FindUserById(id) ==
    LET hits == {u \in users : u.id = id}
    IN  IF hits = {} THEN Null ELSE CHOOSE u \in hits : TRUE

\* !body.field: the field is missing or its value is falsy (the empty string).
Falsy(body, field) == field \notin DOMAIN body \/ body[field] = ""

\* A slip: the role is assigned without the test.
WithDefaultsRoleUser(user) ==
    [name |-> user.name, email |-> user.email,
     photoURL |-> IF Falsy(user, "photoURL") THEN Placeholder ELSE user.photoURL,
     role |-> "user"]

\* req.body after the two defaulting assignments of POST /users.
WithDefaults(user) ==
    [name |-> user.name, email |-> user.email,
     photoURL |-> IF Falsy(user, "photoURL") THEN Placeholder ELSE user.photoURL,
     role |-> IF Falsy(user, "role") THEN "user" ELSE user.role]

\* new UserModel(user): the body's fields under a generated id.
NewUserModel(user, id) ==
    [id |-> id, name |-> user.name, email |-> user.email,
     photoURL |-> user.photoURL, role |-> user.role]

\* GET /users
GetUsers ==
    /\ \E ok \in BOOLEAN :
         resp' = IF ok
                 THEN Response("GET /users", Null, 200, [kind |-> "list", docs |-> users])
                 ELSE ServerError("GET /users", Null)
    /\ UNCHANGED <<products, nextProductId, carts, nextCartId, users, nextUserId, reqs>>

\* A variant: the handler has no not-found branch and sends the null user.
GetUserByIdSendsNoCheck(user) == <<Send(200, [kind |-> "doc", doc |-> user])>>

\* The sends GET /users/:id attempts once findById has resolved: the 404 branch
\* does not return, so res.json(user) follows it and throws, and so does the
\* res.status(500).json() of the catch block.
GetUserByIdSends(user) ==
    IF user = Null
    THEN <<Send(404, Message("User is not found")),
           Send(200, [kind |-> "doc", doc |-> user]),
           Send(500, Message("error"))>>
    ELSE <<Send(200, [kind |-> "doc", doc |-> user])>>

\* GET /users/:id
GetUserById ==
    /\ \E id \in UserIds, ok \in BOOLEAN :
         resp' = IF ok
                 THEN Respond("GET /users/:id", [id |-> id],
                              GetUserByIdSends(FindUserById(id)))
                 ELSE ServerError("GET /users/:id", [id |-> id])
    /\ UNCHANGED <<products, nextProductId, carts, nextCartId, users, nextUserId, reqs>>

\* POST /users, up to the await of save(): the findOne, the 302 when a user
\* with the email exists, else the defaults.
PostUserFind(r, payloads) ==
    /\ reqs[r].pc = "idle"
    /\ \E user \in payloads, ok \in BOOLEAN :
         LET req == [email |-> user.email]
         IN  IF ~ok
             THEN /\ resp' = ServerError("POST /users", req)
                  /\ UNCHANGED reqs
             ELSE IF FindOneUser(user.email) # Null
             THEN /\ resp' = Response("POST /users", req, 302,
                                      Message("User already exists"))
                  /\ UNCHANGED reqs
             ELSE /\ reqs' = [reqs EXCEPT ![r] =
                       [pc |-> "found", op |-> "POST /users", sent |-> user,
                        user |-> WithDefaults(user)]]
                  /\ UNCHANGED resp
    /\ UNCHANGED <<products, nextProductId, carts, nextCartId, users, nextUserId>>

\* POST /users, from the save() to the response.
PostUserSave(r) ==
    /\ reqs[r].pc = "found"
    /\ reqs[r].op = "POST /users"
    /\ nextUserId \in UserIds
    /\ LET user == reqs[r].user
           newUser == NewUserModel(user, nextUserId)
           req == [email |-> user.email]
       IN  \E ok \in BOOLEAN :
             IF ok
             THEN /\ users' = users \cup {newUser}
                  /\ resp' = Response("POST /users", req, 201,
                                      [kind |-> "doc", doc |-> newUser])
             ELSE /\ users' = users
                  /\ resp' = ServerError("POST /users", req)
    /\ nextUserId' = nextUserId + 1
    /\ reqs' = [reqs EXCEPT ![r] = IdleReq]
    /\ UNCHANGED <<products, nextProductId, carts, nextCartId>>

\* PUT /users/:id
PutUser(bodies) ==
    /\ \E id \in UserIds, body \in bodies, ok \in BOOLEAN :
         LET req == [id |-> id]
             found == FindUserById(id)
             user == UpdateDoc(found, body)
         IN  IF ~ok
             THEN /\ users' = users
                  /\ resp' = ServerError("PUT /users/:id", req)
             ELSE IF found = Null
             THEN /\ users' = users
                  /\ resp' = Response("PUT /users/:id", req, 404,
                                      Message("User not found"))
             ELSE /\ users' = (users \ {found}) \cup {user}
                  /\ resp' = Response("PUT /users/:id", req, 200,
                                      [kind |-> "doc", doc |-> user])
    /\ UNCHANGED <<products, nextProductId, carts, nextCartId, nextUserId, reqs>>

\* DELETE /users/:id
DeleteUser ==
    /\ \E id \in UserIds, ok \in BOOLEAN :
         LET req == [id |-> id]
             user == FindUserById(id)
         IN  IF ~ok
             THEN /\ users' = users
                  /\ resp' = ServerError("DELETE /users/:id", req)
             ELSE IF user = Null
             THEN /\ users' = users
                  /\ resp' = Response("DELETE /users/:id", req, 404,
                                      Message("User not found"))
             ELSE /\ users' = users \ {user}
                  /\ resp' = Response("DELETE /users/:id", req, 200,
                                      [kind |-> "doc", doc |-> user])
    /\ UNCHANGED <<products, nextProductId, carts, nextCartId, nextUserId, reqs>>

GuardedOps ==
    {"GET /users/admin/:email", "PATCH /users/user/:id", "PATCH /users/admin/:id"}

\* A registration that leaves verifyAdmin out of the role-changing routes.
MiddlewaresNoAdmin(op) ==
    IF op \in GuardedOps THEN <<"verifyToken">> ELSE <<>>

\* The middlewares registered before the handler of a route, in order.
Middlewares(op) ==
    IF op = "GET /users/admin/:email" THEN <<"verifyToken">>
    ELSE IF op \in {"PATCH /users/user/:id", "PATCH /users/admin/:id"}
    THEN <<"verifyToken", "verifyAdmin">>
    ELSE <<>>

\* verifyToken calls next() when the identity provider accepts the token.
VerifyToken(token) == token.valid

\* verifyAdmin calls next() when the caller's stored role is "admin".
VerifyAdmin(token) ==
    LET caller == FindOneUser(token.email)
    IN  caller # Null /\ caller.role = "admin"

\* A request for one of the given guarded routes, with one of the given
\* tokens, enters its route.
ReceiveOf(r, ops, tokens) ==
    /\ reqs[r].pc = "idle"
    /\ \E op \in ops, token \in tokens :
         \E req \in IF op = "GET /users/admin/:email"
                    THEN {[email |-> e] : e \in Emails}
                    ELSE {[id |-> i] : i \in UserIds} :
            reqs' = [reqs EXCEPT ![r] =
                       [pc |-> "routed", op |-> op, req |-> req, token |-> token,
                        passed |-> <<>>]]
    /\ UNCHANGED <<products, nextProductId, carts, nextCartId, users, nextUserId, resp>>

\* A guarded request enters its route.
Receive(r) == ReceiveOf(r, GuardedOps, Tokens)

\* The next middleware of the route runs: it calls next(), or it answers and
\* the route ends.
RunMiddleware(r) ==
    /\ reqs[r].pc = "routed"
    /\ Len(reqs[r].passed) < Len(Middlewares(reqs[r].op))
    /\ LET q == reqs[r]
           mw == Middlewares(q.op)[Len(q.passed) + 1]
       IN  IF mw = "verifyToken"
           THEN IF VerifyToken(q.token)
                THEN /\ reqs' = [reqs EXCEPT ![r].passed = Append(q.passed, mw)]
                     /\ UNCHANGED resp
                ELSE /\ reqs' = [reqs EXCEPT ![r] = IdleReq]
                     /\ resp' = Response(q.op, q.req, 401, Message("unauthorized"))
           ELSE IF VerifyAdmin(q.token)
                THEN /\ reqs' = [reqs EXCEPT ![r].passed = Append(q.passed, mw)]
                     /\ UNCHANGED resp
                ELSE /\ reqs' = [reqs EXCEPT ![r] = IdleReq]
                     /\ resp' = Response(q.op, q.req, 403, Message("forbidden"))
    /\ UNCHANGED <<products, nextProductId, carts, nextCartId, users, nextUserId>>

\* The handler of a guarded route is reached when every middleware before it
\* has called next().
AtHandler(r, op) ==
    /\ reqs[r].pc = "routed"
    /\ reqs[r].op = op
    /\ Len(reqs[r].passed) = Len(Middlewares(op))

\* GET /users/admin/:email -- user.role of a null user throws, which the catch
\* block answers with 500.
GetAdmin(r) ==
    /\ AtHandler(r, "GET /users/admin/:email")
    /\ LET req == reqs[r].req
           user == FindOneUser(req.email)
       IN  \E ok \in BOOLEAN :
             resp' = IF ok /\ user # Null
                     THEN Response("GET /users/admin/:email", req, 200,
                                   [kind |-> "isAdmin", isAdmin |-> user.role = "admin"])
                     ELSE ServerError("GET /users/admin/:email", req)
    /\ reqs' = [reqs EXCEPT ![r] = IdleReq]
    /\ UNCHANGED <<products, nextProductId, carts, nextCartId, users, nextUserId>>

\* PATCH /users/user/:id and PATCH /users/admin/:id:
\* findByIdAndUpdate(id, { role }, { new: true, runValidators: true })
PatchRole(r, op, role) ==
    /\ AtHandler(r, op)
    /\ LET req == reqs[r].req
           found == FindUserById(req.id)
           updatedUser == UpdateDoc(found, [role |-> role])
       IN  \E ok \in BOOLEAN :
             IF ~ok
             THEN /\ users' = users
                  /\ resp' = ServerError(op, req)
             ELSE IF found = Null
             THEN /\ users' = users
                  /\ resp' = Response(op, req, 404, Message("User not found"))
             ELSE /\ users' = (users \ {found}) \cup {updatedUser}
                  /\ resp' = Response(op, req, 200, [kind |-> "doc", doc |-> updatedUser])
    /\ reqs' = [reqs EXCEPT ![r] = IdleReq]
    /\ UNCHANGED <<products, nextProductId, carts, nextCartId, nextUserId>>

PatchUser(r) == PatchRole(r, "PATCH /users/user/:id", "user")

PatchAdmin(r) == PatchRole(r, "PATCH /users/admin/:id", "admin")

(***************************************************************************)
(* Product router.                                                         *)
(***************************************************************************)
ProductFields == {"name", "price", "description", "image", "category"}

\* The request bodies the clients POST to /products.
FullProduct ==
    [name |-> "Macbook Pro", price |-> 2000, description |-> "A great laptop",
     image |-> "img", category |-> "Electronics"]

\* The body without one of its fields.
Omit(body, field) == [f \in DOMAIN body \ {field} |-> body[f]]

\* The complete body, and the bodies that leave one required field out.
ProductPayloads == {FullProduct} \cup {Omit(FullProduct, f) : f \in ProductFields}

\* The request bodies the clients PUT to /products/:id.
ProductBodies == {[price |-> 1500], [name |-> "Macbook Air", category |-> "Laptops"]}

\* ProductModel.findById(id).
FindProductById(id) ==
    LET hits == {x \in products : x.id = id}
    IN  IF hits = {} THEN Null ELSE CHOOSE x \in hits : TRUE

\* The schema's validation on save(): every field is required.
ValidProduct(body) == ProductFields \subseteq DOMAIN body

\* A slip: every new document gets the same id.
NewProductModelSameId(body, id) ==
    [f \in DOMAIN body \cup {"id"} |-> IF f = "id" THEN 1 ELSE body[f]]

\* new ProductModel(req.body): the body's fields under a generated id.
NewProductModel(body, id) ==
    [f \in DOMAIN body \cup {"id"} |-> IF f = "id" THEN id ELSE body[f]]

\* GET /products
GetProducts ==
    /\ \E ok \in BOOLEAN :
         resp' = IF ok
                 THEN Response("GET /products", Null, 200,
                               [kind |-> "list", docs |-> products])
                 ELSE ServerError("GET /products", Null)
    /\ UNCHANGED <<products, nextProductId, carts, nextCartId, users, nextUserId, reqs>>

\* GET /products/:id
GetProductById ==
    /\ \E id \in ProductIds, ok \in BOOLEAN :
         LET req == [id |-> id]
             product == FindProductById(id)
         IN  resp' = IF ~ok THEN ServerError("GET /products/:id", req)
                     ELSE IF product = Null
                     THEN Response("GET /products/:id", req, 404,
                                   Message("Product not found"))
                     ELSE Response("GET /products/:id", req, 200,
                                   [kind |-> "doc", doc |-> product])
    /\ UNCHANGED <<products, nextProductId, carts, nextCartId, users, nextUserId, reqs>>

\* POST /products
PostProduct(payloads) ==
    /\ nextProductId \in ProductIds
    /\ \E body \in payloads, ok \in BOOLEAN :
         LET req == [body |-> body]
             newProduct == NewProductModel(body, nextProductId)
         IN  IF ok /\ ValidProduct(body)
             THEN /\ products' = products \cup {newProduct}
                  /\ resp' = Response("POST /products", req, 201,
                                      [kind |-> "doc", doc |-> newProduct])
             ELSE /\ products' = products
                  /\ resp' = ServerError("POST /products", req)
    /\ nextProductId' = nextProductId + 1
    /\ UNCHANGED <<carts, nextCartId, users, nextUserId, reqs>>

\* PUT /products/:id
PutProduct(bodies) ==
    /\ \E id \in ProductIds, body \in bodies, ok \in BOOLEAN :
         LET req == [id |-> id, body |-> body]
             found == FindProductById(id)
             product == UpdateDoc(found, body)
         IN  IF ~ok
             THEN /\ products' = products
                  /\ resp' = ServerError("PUT /products/:id", req)
             ELSE IF found = Null
             THEN /\ products' = products
                  /\ resp' = Response("PUT /products/:id", req, 404,
                                      Message("Product not found"))
             ELSE /\ products' = (products \ {found}) \cup {product}
                  /\ resp' = Response("PUT /products/:id", req, 200,
                                      [kind |-> "doc", doc |-> product])
    /\ UNCHANGED <<nextProductId, carts, nextCartId, users, nextUserId, reqs>>

\* A variant: deleting a product also deletes the cart items that reference it.
DeleteProductCascade ==
    /\ \E id \in ProductIds, ok \in BOOLEAN :
         LET req == [id |-> id]
             product == FindProductById(id)
         IN  IF ~ok
             THEN /\ products' = products
                  /\ carts' = carts
                  /\ resp' = ServerError("DELETE /products/:id", req)
             ELSE IF product = Null
             THEN /\ products' = products
                  /\ carts' = carts
                  /\ resp' = Response("DELETE /products/:id", req, 404,
                                      Message("Product not found"))
             ELSE /\ products' = products \ {product}
                  /\ carts' = {c \in carts : c.productId # id}
                  /\ resp' = Response("DELETE /products/:id", req, 200,
                                      [kind |-> "doc", doc |-> product])
    /\ UNCHANGED <<nextProductId, nextCartId, users, nextUserId, reqs>>

\* DELETE /products/:id
DeleteProduct ==
    /\ \E id \in ProductIds, ok \in BOOLEAN :
         LET req == [id |-> id]
             product == FindProductById(id)
         IN  IF ~ok
             THEN /\ products' = products
                  /\ resp' = ServerError("DELETE /products/:id", req)
             ELSE IF product = Null
             THEN /\ products' = products
                  /\ resp' = Response("DELETE /products/:id", req, 404,
                                      Message("Product not found"))
             ELSE /\ products' = products \ {product}
                  /\ resp' = Response("DELETE /products/:id", req, 200,
                                      [kind |-> "doc", doc |-> product])
    /\ UNCHANGED <<nextProductId, carts, nextCartId, users, nextUserId, reqs>>

Init ==
    /\ products = {}
    /\ nextProductId = 1
    /\ carts = {}
    /\ nextCartId = 1
    /\ users = {}
    /\ nextUserId = 1
    /\ reqs = [r \in Reqs |-> IdleReq]
    /\ resp = NoResp

\* The cart router, for the requests of the given clients.
CartRouter(rs, payloads, bodies) ==
    \/ GetCarts
    \/ GetCartsByEmail
    \/ \E r \in rs : PostCartFind(r, payloads)
    \/ \E r \in rs : PostCartMerge(r)
    \/ \E r \in rs : PostCartInsert(r)
    \/ PutCart(bodies)
    \/ DeleteCart
    \/ ClearCart

\* Every cart operation; one POST at a time is between its findOne and its
\* save, and every other operation may run in between.
CartNext == CartRouter(SerialReqs, CartPayloads, CartBodies)

CartSpec == Init /\ [][CartNext]_vars

\* The user router, for the requests of the given clients.
UserRouter(rs, payloads, bodies) ==
    \/ GetUsers
    \/ GetUserById
    \/ \E r \in rs : PostUserFind(r, payloads)
    \/ \E r \in rs : PostUserSave(r)
    \/ PutUser(bodies)
    \/ DeleteUser
    \/ \E r \in rs : Receive(r)
    \/ \E r \in rs : RunMiddleware(r)
    \/ \E r \in rs : GetAdmin(r)
    \/ \E r \in rs : PatchUser(r)
    \/ \E r \in rs : PatchAdmin(r)

UserNext == UserRouter(SerialReqs, UserPayloads, UserBodies)

UserSpec == Init /\ [][UserNext]_vars

\* The product router, for the requests of the given clients.
ProductRouter(payloads, bodies) ==
    \/ GetProducts
    \/ GetProductById
    \/ PostProduct(payloads)
    \/ PutProduct(bodies)
    \/ DeleteProduct

ProductNext == ProductRouter(ProductPayloads, ProductBodies)

ProductSpec == Init /\ [][ProductNext]_vars

(***************************************************************************)
(* The app of index.js.                                                    *)
(***************************************************************************)
BasePaths == {"/products", "/carts", "/users"}

\* app.use("/products", productRouter); app.use("/carts", cartRouter)
Mounted(base) ==
    IF base = "/products" THEN "productRouter"
    ELSE IF base = "/carts" THEN "cartRouter"
    ELSE "none"

\* No route matches: Express answers 404 itself.
FinalHandler(base) ==
    /\ resp' = Response("unrouted", [base |-> base], 404, Message("Cannot " \o base))
    /\ UNCHANGED <<products, nextProductId, carts, nextCartId, users, nextUserId, reqs>>

\* The requests the clients of the app send to the routers.
AppCartPayloads == {CartDoc(1, "n1", "a@x", 1)}
AppCartBodies == {[quantity |-> 1]}
AppProductPayloads == {p \in ProductPayloads : ValidProduct(p)}
AppProductBodies == {[price |-> 1500]}

\* A step of a request under the given base path.
AppUse(base) ==
    LET router == Mounted(base)
    IN  IF router = "productRouter"
        THEN ProductRouter(AppProductPayloads, AppProductBodies)
        ELSE IF router = "cartRouter"
        THEN CartRouter(SerialReqs, AppCartPayloads, AppCartBodies)
        ELSE IF router = "userRouter"
        THEN UserRouter(SerialReqs, UserPayloads, UserBodies)
        ELSE FinalHandler(base)

AppNext == \E base \in BasePaths : AppUse(base)

AppSpec == Init /\ [][AppNext]_vars

\* The three routers side by side: the by-id requests of each, and the
\* requests that create cart items and users; the PATCH requests carry a
\* valid token of the caller a@x.
ServiceUserPayloads == {[name |-> "u", email |-> "a@x", role |-> "admin"]}
ServiceUserBodies == {[role |-> "user"]}
ServiceOps == {"PATCH /users/user/:id", "PATCH /users/admin/:id"}
ServiceTokens == {[valid |-> TRUE, email |-> "a@x"]}

ServiceNext ==
    \/ GetProductById
    \/ PutProduct(AppProductBodies)
    \/ DeleteProduct
    \/ \E r \in SerialReqs : PostCartFind(r, AppCartPayloads)
    \/ \E r \in SerialReqs : PostCartMerge(r)
    \/ \E r \in SerialReqs : PostCartInsert(r)
    \/ PutCart(AppCartBodies)
    \/ DeleteCart
    \/ \E r \in SerialReqs : PostUserFind(r, ServiceUserPayloads)
    \/ \E r \in SerialReqs : PostUserSave(r)
    \/ PutUser(ServiceUserBodies)
    \/ DeleteUser
    \/ \E r \in SerialReqs : ReceiveOf(r, ServiceOps, ServiceTokens)
    \/ \E r \in SerialReqs : RunMiddleware(r)
    \/ \E r \in SerialReqs : PatchUser(r)
    \/ \E r \in SerialReqs : PatchAdmin(r)

ServiceSpec == Init /\ [][ServiceNext]_vars

\* Concurrent POST /carts requests: both may be between findOne and save.
RaceNext ==
    \/ \E r \in Reqs : PostCartFind(r, CartPayloads)
    \/ \E r \in Reqs : PostCartMerge(r)
    \/ \E r \in Reqs : PostCartInsert(r)

RaceSpec == Init /\ [][RaceNext]_vars

(***************************************************************************)
(* Properties of the cart router.                                          *)
(***************************************************************************)
\* The step of request r that ends POST /carts on its merge branch.
MergeStep(r) ==
    /\ reqs[r].pc = "found"
    /\ reqs[r].op = "POST /carts"
    /\ reqs[r].existingCart # Null
    /\ reqs'[r].pc = "idle"

\* The step of request r that ends POST /carts on its insert branch.
InsertStep(r) ==
    /\ reqs[r].pc = "found"
    /\ reqs[r].op = "POST /carts"
    /\ reqs[r].existingCart = Null
    /\ reqs'[r].pc = "idle"

\* A step of a handler that has a single database call and sends resp'.
AtomicStep(op) == resp'.op = op /\ reqs' = reqs

SamePair(c, d) == c.productId = d.productId /\ c.email = d.email

\* C1: in every reachable state the Cart collection holds at most one item
\* per (productId, email) pair.
C1_OneItemPerPair == \A c, d \in carts : SamePair(c, d) => c = d

\* C2: a POST /carts that found an item for its (productId, email) and saved
\* it sets that item's quantity to the quantity it found plus the incoming
\* quantity (the stored quantity plus the incoming one when nothing wrote the
\* item in between), leaves the item's other fields as stored, creates no
\* document and leaves every other item unchanged.
C2_MergeAddsQuantity ==
    [][\A r \in Reqs :
         (MergeStep(r) /\ resp'.status = 200) =>
           LET found == reqs[r].existingCart
               stored == FindCartById(found.id)
               quantity == found.quantity + reqs[r].cart.quantity
           IN  /\ stored # Null
               /\ carts' = (carts \ {stored}) \cup {[stored EXCEPT !.quantity = quantity]}
               /\ (stored.quantity = found.quantity =>
                     \E c \in carts' : /\ c.id = stored.id
                                        /\ c.quantity = stored.quantity + reqs[r].cart.quantity)
               /\ {c.id : c \in carts'} = {c.id : c \in carts}
               /\ nextCartId' = nextCartId]_vars

\* C2 witness: a merge has answered 200 and the stored item has a larger
\* quantity than, and another name than, the payload.
C2_Witness ==
    /\ resp.op = "POST /carts"
    /\ resp.status = 200
    /\ \E c \in carts : /\ SamePair(c, resp.body.doc)
                         /\ c.quantity > resp.body.doc.quantity
                         /\ c.name # resp.body.doc.name

\* C3: when a POST /carts saves its merge right after another POST /carts for
\* the same pair answered 200 and both had found the same quantity, the stored
\* quantity becomes the found quantity plus this request's quantity alone,
\* which is less than the found quantity plus both incoming quantities.
C3_LostUpdate ==
    [][\A r \in Reqs :
         LET found == reqs[r].existingCart
             stored == FindCartById(found.id)
         IN  (/\ MergeStep(r)
              /\ resp'.status = 200
              /\ resp.op = "POST /carts"
              /\ resp.status = 200
              /\ SamePair(resp.body.doc, reqs[r].cart)
              /\ stored # Null
              /\ stored.quantity = found.quantity + resp.body.doc.quantity) =>
               \E c \in carts' :
                  /\ c.id = found.id
                  /\ c.quantity = found.quantity + reqs[r].cart.quantity
                  /\ c.quantity < found.quantity + resp.body.doc.quantity
                                     + reqs[r].cart.quantity]_vars

\* C3 witness: a request that found quantity 1 is about to save its merge
\* while another POST /carts for the same pair has answered 200 and its
\* increment is stored on top of that 1.
C3_Witness ==
    \E r \in Reqs :
       /\ reqs[r].pc = "found"
       /\ reqs[r].op = "POST /carts"
       /\ reqs[r].existingCart # Null
       /\ reqs[r].existingCart.quantity = 1
       /\ reqs[r].existingCart.quantity + reqs[r].cart.quantity <= MaxQuantity
       /\ resp.op = "POST /carts"
       /\ resp.status = 200
       /\ SamePair(resp.body.doc, reqs[r].cart)
       /\ \E c \in carts :
            /\ c.id = reqs[r].existingCart.id
            /\ c.quantity = 1 + resp.body.doc.quantity

\* C4: when POST /carts merges into an existing item the response is 200 and
\* its body is the request's payload, carrying the incoming quantity, not the
\* stored document with the merged quantity.
C4_MergeRespondsPayload ==
    [][\A r \in Reqs :
         (MergeStep(r) /\ (carts' # carts \/ resp'.status = 200)) =>
           /\ resp'.op = "POST /carts"
           /\ resp'.status = 200
           /\ resp'.sends = 1
           /\ resp'.body.kind = "payload"
           /\ resp'.body.doc = reqs[r].cart
           /\ \E c \in carts' : /\ c.id = reqs[r].existingCart.id
                                /\ c.quantity > resp'.body.doc.quantity]_vars

\* C4 witness: a merge has answered 200 with the payload of quantity 2 while
\* the stored item holds more.
C4_Witness ==
    /\ resp.op = "POST /carts"
    /\ resp.status = 200
    /\ resp.body.kind = "payload"
    /\ resp.body.doc.quantity = 2
    /\ \E c \in carts : SamePair(c, resp.body.doc) /\ c.quantity = 3

\* C5: a POST /carts that found no item for its pair and saved adds exactly
\* one document, with the payload's fields and an id no stored document has,
\* leaves the stored items unchanged and responds 201 with the new document.
C5_InsertCreatesDocument ==
    [][\A r \in Reqs :
         (InsertStep(r) /\ resp'.status # 500) =>
           LET cart == reqs[r].cart
               added == carts' \ carts
           IN  /\ carts \subseteq carts'
               /\ Cardinality(added) = 1
               /\ \A n \in added :
                    /\ \A c \in carts : c.id # n.id
                    /\ n.productId = cart.productId /\ n.name = cart.name
                    /\ n.email = cart.email /\ n.image = cart.image
                    /\ n.price = cart.price /\ n.quantity = cart.quantity
                    /\ resp'.body = [kind |-> "doc", doc |-> n]
               /\ resp'.op = "POST /carts"
               /\ resp'.status = 201]_vars

\* C5 witness: an insert has answered 201 with a stored document of quantity
\* 2 while another item was already stored.
C5_Witness ==
    /\ resp.op = "POST /carts"
    /\ resp.status = 201
    /\ resp.body.doc \in carts
    /\ resp.body.doc.quantity = 2
    /\ Cardinality(carts) = 2

\* C6: DELETE /carts/clear/:email, when its deleteMany succeeds, removes every
\* item of that email and no other; it responds 200 with the deletion result
\* exactly when it removed at least one item, and 404 "Empty cart" when it
\* removed none, and then the collection is unchanged.
C6_ClearRemovesOwnersItems ==
    [][AtomicStep("DELETE /carts/clear/:email") =>
         LET email == resp'.req.email
             removed == carts \ carts'
         IN  /\ carts' \subseteq carts
             /\ (resp'.status = 200) = (removed # {})
             /\ resp'.status # 500 =>
                  /\ removed = {c \in carts : c.email = email}
                  /\ \A c \in carts' : c.email # email
                  /\ resp'.status \in {200, 404}
             /\ resp'.status = 200 =>
                  resp'.body = [kind |-> "result", deletedCount |-> Cardinality(removed)]
             /\ resp'.status = 404 =>
                  /\ resp'.body = Message("Empty cart")
                  /\ carts' = carts]_vars

\* C6 witness: a clear has answered 200 and an item of another email is
\* still stored.
C6_Witness ==
    /\ resp.op = "DELETE /carts/clear/:email"
    /\ resp.status = 200
    /\ carts # {}
    /\ \A c \in carts : c.email # resp.req.email

(***************************************************************************)
(* Properties of the user router.                                          *)
(***************************************************************************)
\* The checks that must have passed before the handler of a route runs.
RequiredChecks(op) ==
    IF op = "GET /users/admin/:email" THEN <<"verifyToken">>
    ELSE <<"verifyToken", "verifyAdmin">>

\* C7: a guarded route ends either with a rejection by verifyToken (401) or
\* verifyAdmin (403), which changes no user, or with its handler, which runs
\* only once verifyToken and, for the two PATCH routes, then verifyAdmin have
\* passed for that request; a check passes only for a valid token and for a
\* caller stored as admin.
C7_HandlersRunAfterChecks ==
    [][\A r \in Reqs :
         /\ (reqs[r].pc = "routed" /\ reqs'[r].pc = "idle") =>
              IF resp'.status \in {401, 403}
              THEN /\ users' = users
                   /\ reqs[r].passed # RequiredChecks(reqs[r].op)
              ELSE /\ reqs[r].passed = RequiredChecks(reqs[r].op)
                   /\ reqs[r].token.valid
         /\ (reqs[r].pc = "routed" /\ reqs'[r].pc = "routed" /\ reqs'[r] # reqs[r]) =>
              LET n == Len(reqs[r].passed) + 1
                  check == RequiredChecks(reqs[r].op)[n]
              IN  /\ n <= Len(RequiredChecks(reqs[r].op))
                  /\ reqs'[r] = [reqs[r] EXCEPT !.passed = Append(reqs[r].passed, check)]
                  /\ users' = users
                  /\ check = "verifyToken" => reqs[r].token.valid
                  /\ check = "verifyAdmin" =>
                       \E u \in users : /\ u.email = reqs[r].token.email
                                        /\ u.role = "admin"]_vars

\* C7 witness: the handler of PATCH /users/admin/:id has run and made the
\* user an admin.
C7_Witness ==
    /\ resp.op = "PATCH /users/admin/:id"
    /\ resp.status = 200
    /\ \E u \in users : u.id = resp.req.id /\ u.role = "admin" /\ u.email = "a@x"

\* C9: a POST /users whose email is stored when its findOne runs answers 302
\* "User already exists" and changes no user; a request goes on to its save
\* only when no user with its email was stored.
C9_ExistingEmailGets302 ==
    [][/\ (AtomicStep("POST /users")
            /\ \E u \in users : u.email = resp'.req.email) =>
              /\ users' = users
              /\ nextUserId' = nextUserId
              /\ resp'.status \in {302, 500}
              /\ resp'.status = 302 => resp'.body = Message("User already exists")
       /\ \A r \in Reqs :
            (reqs[r].pc = "idle" /\ reqs'[r].pc = "found" /\ reqs'[r].op = "POST /users") =>
              \A u \in users : u.email # reqs'[r].user.email]_vars

\* C9 witness: a POST /users has answered 302 and exactly one user has the
\* email.
C9_Witness ==
    /\ resp.op = "POST /users"
    /\ resp.status = 302
    /\ Cardinality({u \in users : u.email = resp.req.email}) = 1

\* C10 as stated: GET /users/:id for an id that is not stored answers 200 with
\* a null body or 500, never 404.
C10_MissingUserNever404 ==
    [][(AtomicStep("GET /users/:id")
         /\ \A u \in users : u.id # resp'.req.id) =>
           /\ resp'.status \in {200, 500}
           /\ resp'.status = 200 => resp'.body = [kind |-> "doc", doc |-> Null]]_vars

\* C10 amended: GET /users/:id for an id that is not stored answers 404
\* "User is not found", or 500 when the lookup fails, never 200; the handler
\* goes on to attempt two more sends after the 404.
C10_MissingUserGets404 ==
    [][(AtomicStep("GET /users/:id")
         /\ \A u \in users : u.id # resp'.req.id) =>
           /\ resp'.status \in {404, 500}
           /\ resp'.status = 404 =>
                /\ resp'.body = Message("User is not found")
                /\ resp'.sends = 3
           /\ users' = users]_vars

\* C10 witness: GET /users/:id has answered 404 for an id that is not stored
\* while another user is.
C10_Witness ==
    /\ resp.op = "GET /users/:id"
    /\ resp.status = 404
    /\ users # {}
    /\ \A u \in users : u.id # resp.req.id

(***************************************************************************)
(* Properties of the app.                                                  *)
(***************************************************************************)
\* C8: a request under /products, /carts or /users is dispatched to that
\* path's service, never left to the app's own 404.
C8_BasePathsDispatched ==
    \A base \in {"/products", "/carts", "/users"} :
       ~(resp.op = "unrouted" /\ resp.req.base = base)

(***************************************************************************)
(* Properties of the product router.                                       *)
(***************************************************************************)
\* C11: a successful PUT /products/:id replaces the stored document with the
\* request body: every field the body carries has the body's value, and a
\* field other than the id that the body omits does not keep its previous
\* value.
C11_PutReplacesDocument ==
    [][(AtomicStep("PUT /products/:id") /\ resp'.status = 200) =>
         LET body == resp'.req.body
             old == FindProductById(resp'.req.id)
         IN  \E new \in products' :
                /\ new.id = old.id
                /\ \A f \in DOMAIN old \ {"id"} :
                     IF f \in DOMAIN body
                     THEN f \in DOMAIN new /\ new[f] = body[f]
                     ELSE f \notin DOMAIN new \/ new[f] # old[f]]_vars

\* C13: a POST /products whose body has the five required fields answers 201
\* with one added document that has the body's fields and an id no stored
\* product has (or 500 when the save fails, and then nothing is added); a
\* POST /products whose body omits a required field answers 500 with a
\* message and the Product collection is unchanged.
C13_PostProductValidates ==
    [][AtomicStep("POST /products") =>
         LET body == resp'.req.body
             added == products' \ products
         IN  /\ resp'.sends = 1
             /\ resp'.status \in {201, 500}
             /\ resp'.status = 500 =>
                  /\ resp'.body.kind = "message"
                  /\ products' = products
             /\ resp'.status = 201 =>
                  /\ {"name", "price", "description", "image", "category"}
                        \subseteq DOMAIN body
                  /\ products \subseteq products'
                  /\ Cardinality(added) = 1
                  /\ \A n \in added :
                       /\ \A x \in products : x.id # n.id
                       /\ \A f \in DOMAIN body : n[f] = body[f]
                       /\ resp'.body = [kind |-> "doc", doc |-> n]
             /\ ~({"name", "price", "description", "image", "category"}
                     \subseteq DOMAIN body) => resp'.status = 500]_vars

\* C13 witness: a POST /products that omits the category has answered 500
\* after another one had stored a product.
C13_Witness ==
    /\ resp.op = "POST /products"
    /\ resp.status = 500
    /\ "category" \notin DOMAIN resp.req.body
    /\ "name" \in DOMAIN resp.req.body
    /\ products # {}

\* C12: DELETE /products/:id never changes the Cart collection: every cart
\* item, and so every item whose productId is the deleted product's id, is
\* still stored with all its fields unchanged.
C12_DeleteProductKeepsCarts ==
    [][AtomicStep("DELETE /products/:id") =>
         /\ carts' = carts
         /\ nextCartId' = nextCartId
         /\ \A c \in carts : c.productId = resp'.req.id => c \in carts'
         /\ resp'.status = 200 =>
              /\ \E x \in products : x.id = resp'.req.id
              /\ \A x \in products' : x.id # resp'.req.id]_vars

\* C12 witness: a product has been deleted and a cart item still references
\* its id.
C12_Witness ==
    /\ resp.op = "DELETE /products/:id"
    /\ resp.status = 200
    /\ \A x \in products : x.id # resp.req.id
    /\ \E c \in carts : c.productId = resp.req.id

(***************************************************************************)
(* More properties of the user router.                                     *)
(***************************************************************************)
\* The step of request r that ends POST /users with its save().
SaveStep(r) ==
    /\ reqs[r].pc = "found"
    /\ reqs[r].op = "POST /users"
    /\ reqs'[r].pc = "idle"

\* C14 as stated: a successful POST /users stores the user with the
\* placeholder photoURL when the request omits photoURL and with role "user"
\* when it omits role, keeps any photoURL or role the request supplies, and
\* responds 201 with the stored user.
C14_DefaultsOnlyWhenOmitted ==
    [][\A r \in Reqs :
         (SaveStep(r) /\ resp'.status # 500) =>
           LET sent == reqs[r].sent
           IN  /\ resp'.status = 201
               /\ resp'.body.doc \in users'
               /\ \A n \in users' \ users :
                    /\ n.photoURL = IF "photoURL" \in DOMAIN sent
                                    THEN sent.photoURL ELSE Placeholder
                    /\ n.role = IF "role" \in DOMAIN sent
                                THEN sent.role ELSE "user"]_vars

\* C14 amended: a successful POST /users stores the user with the placeholder
\* photoURL when the request omits photoURL or supplies an empty one, with
\* role "user" when it omits role or supplies an empty one, keeps any
\* non-empty photoURL or role the request supplies, adds no other user and
\* responds 201 with the stored user.
C14_DefaultsWhenOmittedOrEmpty ==
    [][\A r \in Reqs :
         (SaveStep(r) /\ resp'.status # 500) =>
           LET sent == reqs[r].sent
               added == users' \ users
           IN  /\ resp'.status = 201
               /\ resp'.sends = 1
               /\ users \subseteq users'
               /\ Cardinality(added) = 1
               /\ \A n \in added :
                    /\ resp'.body = [kind |-> "doc", doc |-> n]
                    /\ n.name = sent.name /\ n.email = sent.email
                    /\ ("photoURL" \notin DOMAIN sent => n.photoURL = Placeholder)
                    /\ ("photoURL" \in DOMAIN sent =>
                          n.photoURL = IF sent.photoURL = ""
                                       THEN Placeholder ELSE sent.photoURL)
                    /\ ("role" \notin DOMAIN sent => n.role = "user")
                    /\ ("role" \in DOMAIN sent =>
                          n.role = IF sent.role = "" THEN "user" ELSE sent.role)]_vars

\* C14 witness: a POST /users that supplied an empty photoURL and the role
\* "admin" has answered 201 with a user stored under the placeholder and that
\* role, next to a user stored with both defaults.
C14_Witness ==
    /\ resp.op = "POST /users"
    /\ resp.status = 201
    /\ resp.body.doc \in users
    /\ resp.body.doc.photoURL = Placeholder
    /\ resp.body.doc.role = "admin"
    /\ \E u \in users : u.photoURL = Placeholder /\ u.role = "user"

\* C16: every handler invocation that has ended sent exactly one response:
\* it attempted one send, on its not-found and failure paths too.
C16_ExactlyOneSend == resp.op # "none" => resp.sends = 1

(***************************************************************************)
(* Properties of the by-id operations of the three routers.                *)
(***************************************************************************)
ByIdOps ==
    {"GET /products/:id", "PUT /products/:id", "DELETE /products/:id",
     "PUT /carts/:id", "DELETE /carts/:id", "PUT /users/:id", "DELETE /users/:id",
     "PATCH /users/user/:id", "PATCH /users/admin/:id"}

\* The ids stored in the collection a by-id operation works on.
StoredIds(op) ==
    IF op \in {"GET /products/:id", "PUT /products/:id", "DELETE /products/:id"}
    THEN {x.id : x \in products}
    ELSE IF op \in {"PUT /carts/:id", "DELETE /carts/:id"}
    THEN {c.id : c \in carts}
    ELSE {u.id : u \in users}

\* A step in which the handler of a by-id operation runs and answers: the
\* handlers of the two PATCH routes run once the route's checks have passed.
HandlerStep(op) ==
    IF op \in {"PATCH /users/user/:id", "PATCH /users/admin/:id"}
    THEN /\ resp'.op = op
         /\ \E r \in Reqs : /\ reqs[r].pc = "routed"
                            /\ reqs[r].op = op
                            /\ reqs[r].passed = <<"verifyToken", "verifyAdmin">>
                            /\ reqs'[r].pc = "idle"
    ELSE AtomicStep(op)

====
